---- MODULE Spec2Model ----
(***************************************************************************)
(* Model of gabp's matrix layer (include/gabp/matrix.hh): the dense        *)
(* basematrix, the wrapping submatrix view, and the free algorithms det,   *)
(* inverse, matmul and matadd, which work through get/set only.            *)
(*                                                                         *)
(* A matrix object is referred to by a handle                              *)
(*   [id |-> dense object, m |-> rows, n |-> cols, layers |-> <<...>>]     *)
(* where layers is the chain of submatrix objects between the handle and   *)
(* the dense object it finally shadows, outermost first; each layer holds  *)
(* the members m_i, m_j of one submatrix and its template extents          *)
(* m, n (own) and M, N (parent).  A handle with no layers is a basematrix. *)
(***************************************************************************)
EXTENDS Integers, Sequences, FiniteSets, TLC

VARIABLES
    m_elements,  \* dense object id -> its array T m_elements[m][n]
    call,        \* the last call made by the client and what it returned
    nsets        \* number of set calls the client has made so far

vars == <<m_elements, call, nsets>>

\* ---------------------------------------------------------------- bounds
MaxVal  == 1     \* elements are drawn from 0..MaxVal
MaxOff  == 2     \* view offsets are drawn from 0..MaxOff
MaxSets == 2     \* set calls the client makes in one run

Vals == 0..MaxVal
Offs == 0..MaxOff

\* extents of the dense matrix the views shadow: basematrix<int, 3, 2>
ViewM == 3
ViewN == 2

\* extent of the square matrix given to det: basematrix<int, 3, 3>
DetDim == 3

\* extent of the square matrices given to matmul, matadd and inverse:
\* basematrix<int, 2, 2>
AlgDim == 2

\* ------------------------------------------------ basematrix (dense)
\* basematrix(T ex): m*n copies of ex
basematrix_fill(m, n, ex) == [i \in 0..(m - 1) |-> [j \in 0..(n - 1) |-> ex]]

basematrix_get(el, h, i, j) == el[h.id][i][j]

basematrix_set(el, h, i, j, value) == [el EXCEPT ![h.id][i][j] = value]

Base(id, m, n) == [id |-> id, m |-> m, n |-> n, layers |-> <<>>]

\* ------------------------------------------------ submatrix (view)
\* submatrix(mat, i, j): shadows mat (an M x N matrix) as an m x n matrix
submatrix(mat, i, j, m, n) ==
    [id |-> mat.id, m |-> m, n |-> n,
     layers |-> <<[m_i |-> i, m_j |-> j, m |-> m, n |-> n,
                   M |-> mat.m, N |-> mat.n]>> \o mat.layers]

\* submatrix(mat): the constructor without offset
submatrix0(mat, m, n) == submatrix(mat, 0, 0, m, n)

IsBase(h) == h.layers = <<>>

\* the member m_parent of the view h, and the view object itself
m_parent(h) ==
    [id |-> h.id, m |-> h.layers[1].M, n |-> h.layers[1].N, layers |-> Tail(h.layers)]

self(h) == h.layers[1]

RECURSIVE get(_, _, _, _)
RECURSIVE set(_, _, _, _, _)

submatrix_get_rowoff(el, h, i, j) ==
    get(el, m_parent(h), (i + self(h).m_i) % self(h).M, (j + self(h).m_i) % self(h).N)

submatrix_get(el, h, i, j) ==
    get(el, m_parent(h), (i + self(h).m_i) % self(h).M, (j + self(h).m_j) % self(h).N)

submatrix_set_swapped(el, h, i, j, value) ==
    set(el, m_parent(h), (i + self(h).m_j) % self(h).M, (j + self(h).m_i) % self(h).N, value)

submatrix_set(el, h, i, j, value) ==
    set(el, m_parent(h), (i + self(h).m_i) % self(h).M, (j + self(h).m_j) % self(h).N, value)

\* virtual dispatch of matrix::get / matrix::set
get(el, h, i, j) ==
    IF IsBase(h) THEN basematrix_get(el, h, i, j) ELSE submatrix_get(el, h, i, j)

set(el, h, i, j, value) ==
    IF IsBase(h) THEN basematrix_set(el, h, i, j, value) ELSE submatrix_set(el, h, i, j, value)

\* basematrix(const submatrix<T, m, n, M, N>& other): element-by-element copy
basematrix_from_sub_shifted(el, other) ==
    [i \in 0..(other.m - 1) |-> [j \in 0..(other.n - 1) |->
        get(el, other, (i + 1) % other.m, j)]]

basematrix_from_sub(el, other) ==
    [i \in 0..(other.m - 1) |-> [j \in 0..(other.n - 1) |-> get(el, other, i, j)]]

\* ------------------------------------------------ free algorithms
\* the view det makes for column j of the n x n matrix mat
det_sub(mat, j) == submatrix(mat, 1, j + 1, mat.n - 1, mat.n - 1)

RECURSIVE det(_, _)
RECURSIVE det_loop(_, _, _, _, _)

\* the loop of det from column j on, with the locals acc and plus
det_loop(el, mat, j, acc, plus) ==
    IF j = mat.n THEN acc
    ELSE LET sd == det(el, det_sub(mat, j))
             term == get(el, mat, 0, j) * sd
         IN det_loop(el, mat, j + 1, IF plus THEN acc + term ELSE acc - term, ~plus)

\* det(mat): the overload for 1 x 1 matrices, and the general template
det(el, mat) ==
    IF mat.n = 1 THEN get(el, mat, 0, 0) ELSE det_loop(el, mat, 0, 0, TRUE)

\* inverse(src, dest): what it returns and the memory it leaves
inverse_writes(el, src, dest) ==
    [ret |-> FALSE, el |-> set(el, dest, 0, 0, get(el, src, 0, 0) + 1)]

inverse(el, src, dest) == [ret |-> FALSE, el |-> el]

RECURSIVE matmul_acc(_, _, _, _, _, _, _)
RECURSIVE matmul_loop(_, _, _, _, _)

matmul_acc_swapped(el, left, right, i, j, k, a) ==
    IF k = left.n THEN a
    ELSE matmul_acc(el, left, right, i, j, k + 1,
                    a + get(el, left, i, k) * get(el, right, j, k))

\* the innermost loop of matmul from k on: the accumulator a of cell (i, j)
matmul_acc(el, left, right, i, j, k, a) ==
    IF k = left.n THEN a
    ELSE matmul_acc(el, left, right, i, j, k + 1,
                    a + get(el, left, i, k) * get(el, right, k, j))

\* the two outer loops of matmul, from the idx-th cell on in row-major order
matmul_loop(el, left, right, dest, idx) ==
    IF idx = left.m * right.n THEN el
    ELSE LET i == idx \div right.n
             j == idx % right.n
             a == matmul_acc(el, left, right, i, j, 0, 0)
         IN matmul_loop(set(el, dest, i, j, a), left, right, dest, idx + 1)

matmul(el, left, right, dest) == matmul_loop(el, left, right, dest, 0)

RECURSIVE matadd_loop(_, _, _, _, _)

\* the two loops of matadd, from the idx-th cell on in row-major order
matadd_loop(el, left, right, dest, idx) ==
    IF idx = left.m * left.n THEN el
    ELSE LET i == idx \div left.n
             j == idx % left.n
         IN matadd_loop(set(el, dest, i, j, get(el, left, i, j) + get(el, right, i, j)),
                        left, right, dest, idx + 1)

matadd(el, left, right, dest) == matadd_loop(el, left, right, dest, 0)

\* ------------------------------------------------------------ client
Call(op, args, i, j, value, ret) ==
    [op |-> op, args |-> args, i |-> i, j |-> j, value |-> value, ret |-> ret]

\* no call is in progress: the client is between two statements
Idle == Call("idle", <<>>, 0, 0, 0, 0)

\* the client has used the result of its last call and goes on
Return ==
    /\ call.op \in {"get", "set", "construct"}
    /\ call' = Idle
    /\ UNCHANGED <<m_elements, nsets>>

Rows(h) == 0..(h.m - 1)
Cols(h) == 0..(h.n - 1)

\* ---- views over one dense matrix A
A == Base("A", ViewM, ViewN)
C == Base("C", ViewM, ViewN)

\* views made straight over A, one row shorter than A
DirectViews ==
    {submatrix0(A, ViewM - 1, ViewN)}
        \cup {submatrix(A, oi, oj, ViewM - 1, ViewN) : oi \in Offs, oj \in Offs}

\* views made over a view (offset (o, o) over A): one row shorter than their parent
ChainedViews ==
    {submatrix(d, oi, oj, d.m - 1, d.n) :
        d \in {w \in DirectViews : self(w).m_i = self(w).m_j}, oi \in Offs, oj \in Offs}

Views == DirectViews \cup ChainedViews

ViewHandles == {A} \cup Views

InitView ==
    /\ \E ex \in Vals : m_elements = [id \in {"A"} |-> basematrix_fill(ViewM, ViewN, ex)]
    /\ call = Idle
    /\ nsets = 0

\* h.get(i, j)
Get(h, i, j) ==
    /\ call.op = "idle"
    /\ call' = Call("get", <<h>>, i, j, 0, get(m_elements, h, i, j))
    /\ UNCHANGED <<m_elements, nsets>>

\* h.set(i, j, value)
Set(h, i, j, value) ==
    /\ call.op = "idle"
    /\ nsets < MaxSets
    /\ m_elements' = set(m_elements, h, i, j, value)
    /\ call' = Call("set", <<h>>, i, j, value, value)
    /\ nsets' = nsets + 1

NextView ==
    \/ \E h \in ViewHandles : \E i \in Rows(h), j \in Cols(h) : Get(h, i, j)
    \/ \E h \in ViewHandles : \E i \in Rows(h), j \in Cols(h), v \in Vals : Set(h, i, j, v)
    \/ Return

SpecView == InitView /\ [][NextView]_vars

\* ---- a dense matrix C made from a view of A of A's extents
FullViews == {submatrix(A, oi, oj, ViewM, ViewN) : oi \in Offs, oj \in Offs}

\* basematrix<T, m, n> C(other)
Construct(other) ==
    /\ call.op = "idle"
    /\ "C" \notin DOMAIN m_elements
    /\ m_elements' = [id \in {"A", "C"} |->
                        IF id = "C" THEN basematrix_from_sub(m_elements, other)
                        ELSE m_elements[id]]
    /\ call' = Call("construct", <<other>>, 0, 0, 0, 0)
    /\ UNCHANGED nsets

NextCopy ==
    \/ \E i \in Rows(A), j \in Cols(A), v \in Vals : Set(A, i, j, v)
    \/ \E other \in {submatrix0(A, ViewM, ViewN)} \cup FullViews : Construct(other)
    \/ "C" \in DOMAIN m_elements /\ \E i \in Rows(C), j \in Cols(C), v \in Vals : Set(C, i, j, v)
    \/ Return

SpecCopy == InitView /\ [][NextCopy]_vars

\* ---- matmul, matadd and inverse on the dense X, Y, D and views of them
X == Base("X", AlgDim, AlgDim)
Y == Base("Y", AlgDim, AlgDim)
D == Base("D", AlgDim, AlgDim)

\* the views of full extents over a dense matrix, one per offset below its extents
ViewsOf(mat) == {submatrix(mat, oi, oj, mat.m, mat.n) : oi \in Rows(mat), oj \in Cols(mat)}

InitAlg ==
    /\ \E ex \in Vals, ey \in Vals, ed \in Vals :
          m_elements = [id \in {"X", "Y", "D"} |->
                          basematrix_fill(AlgDim, AlgDim,
                                          IF id = "X" THEN ex ELSE IF id = "Y" THEN ey ELSE ed)]
    /\ call = Idle
    /\ nsets = 0

\* the argument lists the client calls the algorithms with: views as inputs,
\* the same matrix twice, and a destination that is, or shadows, an input
AlgArgs ==
    {<<l, Y, D>> : l \in {X} \cup ViewsOf(X)}
        \cup {<<X, r, D>> : r \in {X} \cup ViewsOf(Y)}
        \cup {<<X, Y, d>> : d \in {X, Y} \cup ViewsOf(X) \cup ViewsOf(Y)}

\* matmul(left, right, dest); the client stops after it
MatMul(left, right, dest) ==
    /\ call.op = "idle"
    /\ m_elements' = matmul(m_elements, left, right, dest)
    /\ call' = Call("matmul", <<left, right, dest>>, 0, 0, 0, 0)
    /\ UNCHANGED nsets

\* matadd(left, right, dest); the client stops after it
MatAdd(left, right, dest) ==
    /\ call.op = "idle"
    /\ m_elements' = matadd(m_elements, left, right, dest)
    /\ call' = Call("matadd", <<left, right, dest>>, 0, 0, 0, 0)
    /\ UNCHANGED nsets

\* inverse(src, dest); the client stops after it
Inverse(src, dest) ==
    /\ call.op = "idle"
    /\ m_elements' = inverse(m_elements, src, dest).el
    /\ call' = Call("inverse", <<src, dest>>, 0, 0, 0, inverse(m_elements, src, dest).ret)
    /\ UNCHANGED nsets

NextAlg ==
    \/ \E h \in {X, Y} : \E i \in Rows(h), j \in Cols(h), v \in Vals : Set(h, i, j, v)
    \/ \E args \in AlgArgs : MatMul(args[1], args[2], args[3])
    \/ \E args \in AlgArgs : MatAdd(args[1], args[2], args[3])
    \/ \E src \in {X} \cup ViewsOf(X), dest \in {D, X} : Inverse(src, dest)
    \/ Return

SpecAlg == InitAlg /\ [][NextAlg]_vars

\* ---- det on the dense S and on square views of it
S == Base("S", DetDim, DetDim)

SquareViews ==
    {submatrix(S, oi, oj, n, n) : oi \in Offs, oj \in Offs, n \in 1..DetDim}

InitDet ==
    /\ \E ex \in Vals : m_elements = [id \in {"S"} |-> basematrix_fill(DetDim, DetDim, ex)]
    /\ call = Idle
    /\ nsets = 0

\* det(mat); the client stops after it
Det(mat) ==
    /\ call.op = "idle"
    /\ call' = Call("det", <<mat>>, 0, 0, 0, det(m_elements, mat))
    /\ UNCHANGED <<m_elements, nsets>>

NextDet ==
    \/ \E i \in Rows(S), j \in Cols(S), v \in Vals : Set(S, i, j, v)
    \/ \E mat \in {S} \cup SquareViews : Det(mat)
    \/ Return

SpecDet == InitDet /\ [][NextDet]_vars

\* ------------------------------------------------------------ claims on views
\* what the matrix par, the parent of a view, holds at (i, j): its array if it
\* is dense
ParentRead(el, par, i, j) ==
    IF IsBase(par) THEN el[par.id][i][j] ELSE get(el, par, i, j)

\* the coordinates of h's parent that the view h maps (i, j) to
MapI(h, i) == (i + self(h).m_i) % self(h).M
MapJ(h, j) == (j + self(h).m_j) % self(h).N

\* C2: view.get(i, j) returns parent.get((i + oi) mod M, (j + oj) mod N), the parent
\* being dense or itself a view; a view built without an offset uses (0, 0).
C2_ViewGet ==
    (call.op = "get" /\ ~IsBase(call.args[1])) =>
        \A h \in {call.args[1]} : \A par \in {m_parent(h)} :
        /\ call.ret = ParentRead(m_elements, par, MapI(h, call.i), MapJ(h, call.j))
        /\ h = submatrix0(par, h.m, h.n) =>
              call.ret = ParentRead(m_elements, par, call.i % par.m, call.j % par.n)

\* a get through a view over a view, wrapping in both directions, after the
\* parent was written, that reads something else than the unshifted cell
C2_Witness ==
    /\ call.op = "get"
    /\ Len(call.args[1].layers) = 2
    /\ call.i + self(call.args[1]).m_i >= self(call.args[1]).M
    /\ call.j + self(call.args[1]).m_j >= self(call.args[1]).N
    /\ nsets > 0
    /\ call.ret # get(m_elements, m_parent(call.args[1]), call.i, call.j)

\* the views of extents m x n made over the matrix par, one per offset
ViewsOver(par, m, n) == {submatrix(par, oi, oj, m, n) : oi \in Offs, oj \in Offs}

\* C3: a set(i, j, v) through a view is seen by the parent at
\* ((i + oi) mod M, (j + oj) mod N) and by every coordinate of every other view
\* over the same parent (one per offset pair) that maps to that cell; all other
\* parent cells keep their value.
C3_Aliasing ==
    [][(call'.op = "set" /\ ~IsBase(call'.args[1])) =>
        \A h \in {call'.args[1]} : \A par \in {m_parent(h)} :
        \A pi \in {MapI(h, call'.i)}, pj \in {MapJ(h, call'.j)} :
            /\ ParentRead(m_elements', par, pi, pj) = call'.value
            /\ \A w \in ViewsOver(par, h.m, h.n) :
                  \A a \in Rows(w), b \in Cols(w) :
                      (MapI(w, a) = pi /\ MapJ(w, b) = pj) =>
                          get(m_elements', w, a, b) = call'.value
            /\ \A x \in Rows(par), y \in Cols(par) :
                  <<x, y>> # <<pi, pj>> =>
                      ParentRead(m_elements', par, x, y) = ParentRead(m_elements, par, x, y)
            /\ \A x \in Rows(A), y \in Cols(A) :
                  (IsBase(par) /\ <<x, y>> # <<pi, pj>>) =>
                      m_elements'["A"][x][y] = m_elements["A"][x][y]
    ]_vars

\* the second set of a run, made through a wrapping view of A with unequal
\* offsets, changed a cell that another view with other offsets reads
C3_Witness ==
    /\ call.op = "set"
    /\ nsets = 2
    /\ LET h == call.args[1] IN
        /\ Len(h.layers) = 1
        /\ self(h).m_i # self(h).m_j
        /\ call.i + self(h).m_i >= ViewM
        /\ \E w \in DirectViews :
              /\ self(w).m_i # self(h).m_i
              /\ \E a \in Rows(w), b \in Cols(w) :
                    /\ MapI(w, a) = MapI(h, call.i)
                    /\ MapJ(w, b) = MapJ(h, call.j)
                    /\ get(m_elements, w, a, b) = call.value
                    /\ \E b2 \in Cols(w) : get(m_elements, w, a, b2) # call.value

\* C9: the dense matrix made from a view of A of A's extents holds, cell by
\* cell, what the view reads (A itself for offset (0, 0)); A is not changed by
\* the construction nor by later sets on the new matrix, nor the new matrix by
\* later sets on A.
C9_RoundTrip ==
    [][/\ call'.op = "construct" =>
            LET other == call'.args[1] IN
            /\ \A i \in Rows(A), j \in Cols(A) :
                  m_elements'["C"][i][j] = m_elements["A"][MapI(other, i)][MapJ(other, j)]
            /\ other = submatrix0(A, ViewM, ViewN) => m_elements'["C"] = m_elements["A"]
            /\ m_elements'["A"] = m_elements["A"]
       /\ (call'.op = "set" /\ call'.args[1] = C) =>
            /\ m_elements'["A"] = m_elements["A"]
            /\ m_elements'["C"][call'.i][call'.j] = call'.value
       /\ (call'.op = "set" /\ call'.args[1] = A /\ "C" \in DOMAIN m_elements) =>
            m_elements'["C"] = m_elements["C"]
    ]_vars

\* a matrix was just made from the offset-free view of a non-uniform A
C9_Witness ==
    /\ call.op = "construct"
    /\ call.args[1] = submatrix0(A, ViewM, ViewN)
    /\ nsets > 0
    /\ m_elements["C"] = m_elements["A"]
    /\ \E i \in Rows(A), j \in Cols(A) : m_elements["A"][i][j] # m_elements["A"][0][0]

\* ------------------------------------------------------------ claims on det
\* what the matrix h reads, cell by cell
Read(el, h) == [i \in Rows(h) |-> [j \in Cols(h) |-> get(el, h, i, j)]]

\* the c-th column, in increasing order, of the columns other than j
OtherCol(j, c) == IF c < j THEN c ELSE c + 1

\* the minor of the n x n array f: row 0 and column j deleted
Minor(f, n, j) == [r \in 0..(n - 2) |-> [c \in 0..(n - 2) |-> f[r + 1][OtherCol(j, c)]]]

RECURSIVE Laplace(_, _)
RECURSIVE LaplaceSum(_, _, _)

\* the terms of the expansion along row 0 for the columns j..n-1
LaplaceSum(f, n, j) ==
    IF j = n THEN 0
    ELSE (IF j % 2 = 0 THEN 1 ELSE -1) * f[0][j] * Laplace(Minor(f, n, j), n - 1)
         + LaplaceSum(f, n, j + 1)

\* the determinant of the n x n array f
Laplace(f, n) == IF n = 1 THEN f[0][0] ELSE LaplaceSum(f, n, 0)

\* C1: det returns the determinant of the matrix: the Laplace expansion along
\* the first row over the minors (row 0 and column j deleted), and the single
\* element of a 1 x 1 matrix.
C1_DetIsDeterminant ==
    call.op = "det" =>
        call.ret = Laplace(Read(m_elements, call.args[1]), call.args[1].n)

\* C10: the view det builds for column j is the minor: its entry (r, c) is the
\* matrix entry at row r + 1 and at the c-th of the columns other than j.
C10_SubIsMinor ==
    (call.op = "det" /\ call.args[1].n >= 2) =>
        LET mat == call.args[1] IN
        \A j \in Cols(mat) :
            Read(m_elements, det_sub(mat, j)) = Minor(Read(m_elements, mat), mat.n, j)

\* ------------------------------------------------------------ claims on algorithms
RECURSIVE RowByCol(_, _, _, _, _)

\* sum over k < n of a[i][k] * b[k][j]
RowByCol(a, b, i, j, n) ==
    IF n = 0 THEN 0 ELSE RowByCol(a, b, i, j, n - 1) + a[i][n - 1] * b[n - 1][j]

AllDense(args) == \A k \in 1..Len(args) : IsBase(args[k])

\* C4: matmul leaves every cell of left and of right as it was, whatever
\* matrices it is given, a dest that is or shadows an input included.
C4_MatmulFrame ==
    [][call'.op = "matmul" =>
        /\ Read(m_elements', call'.args[1]) = Read(m_elements, call'.args[1])
        /\ Read(m_elements', call'.args[2]) = Read(m_elements, call'.args[2])
    ]_vars

\* C5: for dense left and right and a separate dense dest, matmul leaves
\* dest[i][j] = sum over k of left[i][k] * right[k][j] in every cell, whatever
\* dest held before.
C5_MatmulProduct ==
    [][(/\ call'.op = "matmul"
        /\ AllDense(call'.args)
        /\ call'.args[3].id \notin {call'.args[1].id, call'.args[2].id}) =>
        LET left == call'.args[1]
            right == call'.args[2]
            dest == call'.args[3]
        IN \A i \in Rows(dest), j \in Cols(dest) :
              m_elements'[dest.id][i][j] =
                  RowByCol(m_elements[left.id], m_elements[right.id], i, j, left.n)
    ]_vars

\* matmul(X, Y, D) left a cell that sums two products next to a zero cell
C5_Witness ==
    /\ call.op = "matmul"
    /\ call.args = <<X, Y, D>>
    /\ nsets > 0
    /\ m_elements["X"] # m_elements["Y"]
    /\ \E i \in Rows(D), j \in Cols(D) : m_elements["D"][i][j] >= 2
    /\ \E i \in Rows(D), j \in Cols(D) : m_elements["D"][i][j] = 0

\* C6: after matadd every cell of dest reads the sum of what left and right
\* held there at the call, whatever matrices it is given, a dest that shares
\* its parent with an input included.
C6_MataddSum ==
    [][call'.op = "matadd" =>
        \A i \in Rows(call'.args[3]), j \in Cols(call'.args[3]) :
            get(m_elements', call'.args[3], i, j) =
                get(m_elements, call'.args[1], i, j) + get(m_elements, call'.args[2], i, j)
    ]_vars

\* C7: inverse returns true, the value its documentation gives to "src is
\* singular", on every input.
C7_InverseReportsSingular == call.op = "inverse" => call.ret = TRUE

====
